---- MODULE Spec2Model ----
(***************************************************************************)
(* Multi-source question router of streamlit_app.py: the catalog builder,  *)
(* the question matcher, the routing strategy selector and the             *)
(* clarification dialogue kept in the Streamlit session state.             *)
(*                                                                         *)
(* A Python str is a sequence of one-character strings; a Python dict is   *)
(* a sequence of records in insertion order with unique keys; a Python     *)
(* set is a set; None is the record None.                                  *)
(***************************************************************************)
EXTENDS Integers, Sequences, FiniteSets, TLC

VARIABLES
    data_sources,            \* st.session_state.data_sources (the catalog)
    messages,                \* st.session_state.messages (the transcript)
    pending_clarification,   \* st.session_state.pending_clarification
    warnings,                \* st.session_state.warnings
    fire_API_error_notify,   \* st.session_state["fire_API_error_notify"]
    last,                    \* locals of the last process_user_input call
    question,                \* argument of analyze_question_for_sources
    threshold,               \* argument of determine_routing_strategy
    source_matches,          \* result of analyze_question_for_sources
    route,                   \* result of determine_routing_strategy
    semantic_model,          \* the parsed YAML read by load_semantic_model_structure
    source_arg,              \* selected_source passed to create_source_enhancement_prompt
    enhanced,                \* result of create_source_enhancement_prompt
    response_warnings,       \* response["warnings"] passed to filter_warnings
    pc                       \* position of the caller of the pure functions

vars == <<data_sources, messages, pending_clarification, warnings,
          fire_API_error_notify, last, question, threshold, source_matches,
          route, semantic_model, source_arg, enhanced,
          response_warnings, pc>>

None == [none |-> TRUE]

-----------------------------------------------------------------------------
(* Python str operations                                                   *)

Uppers == <<"A","B","C","D","E","F","G","H","I","J","K","L","M",
            "N","O","P","Q","R","S","T","U","V","W","X","Y","Z">>

Lowers == <<"a","b","c","d","e","f","g","h","i","j","k","l","m",
            "n","o","p","q","r","s","t","u","v","w","x","y","z">>

Digits == {"0","1","2","3","4","5","6","7","8","9"}

Whitespace == {" "}

Range(s) == {s[i] : i \in DOMAIN s}

\* one character of str.lower()
LowerChar(c) ==
    IF \E i \in DOMAIN Uppers : Uppers[i] = c
    THEN Lowers[CHOOSE i \in DOMAIN Uppers : Uppers[i] = c]
    ELSE c

\* str.lower()
str_lower(s) == [i \in 1..Len(s) |-> LowerChar(s[i])]

\* the character class \w of the re module
IsWordChar(c) == c \in Range(Uppers) \cup Range(Lowers) \cup Digits \cup {"_"}

\* str.strip(): leading and trailing whitespace removed
str_strip(s) ==
    LET keep == {i \in 1..Len(s) : s[i] \notin Whitespace}
    IN  IF keep = {} THEN <<>>
        ELSE LET lo == CHOOSE i \in keep : \A j \in keep : i <= j
                 hi == CHOOSE i \in keep : \A j \in keep : j <= i
             IN  SubSeq(s, lo, hi)

\* Python's `sub in s` for two strs
str_in(sub, s) ==
    \E i \in 0..(Len(s) - Len(sub)) : \A k \in 1..Len(sub) : s[i + k] = sub[k]

\* re.findall(r'\b\w+\b', s): the maximal runs of word characters, left to right
RECURSIVE re_findall_words_from(_, _, _)
re_findall_words_from(s, i, cur) ==
    IF i > Len(s)
    THEN IF cur = <<>> THEN <<>> ELSE <<cur>>
    ELSE IF IsWordChar(s[i])
         THEN re_findall_words_from(s, i + 1, Append(cur, s[i]))
         ELSE IF cur = <<>>
              THEN re_findall_words_from(s, i + 1, <<>>)
              ELSE <<cur>> \o re_findall_words_from(s, i + 1, <<>>)

re_findall_words(s) == re_findall_words_from(s, 1, <<>>)

\* dict[key] = value on an insertion-ordered dict whose entries carry their key
\* in field `name`: an existing key keeps its position
dict_put(d, entry) ==
    IF \E i \in DOMAIN d : d[i].name = entry.name
    THEN [i \in DOMAIN d |-> IF d[i].name = entry.name THEN entry ELSE d[i]]
    ELSE Append(d, entry)

\* the same for the catalog, whose key is field `key`
catalog_put(d, entry) ==
    IF \E i \in DOMAIN d : d[i].key = entry.key
    THEN [i \in DOMAIN d |-> IF d[i].key = entry.key THEN entry ELSE d[i]]
    ELSE Append(d, entry)

-----------------------------------------------------------------------------
(* load_semantic_model_structure: the catalog builder                      *)

\* description words kept from two characters on
desc_words_from_two(desc) ==
    {str_strip(str_lower(w)) : w \in {v \in Range(re_findall_words(desc)) : Len(v) > 1}}

\* [word.lower().strip() for word in re.findall(r'\b\w+\b', desc) if len(word) > 2]
desc_words(desc) ==
    {str_strip(str_lower(w)) : w \in {v \in Range(re_findall_words(desc)) : Len(v) > 2}}

\* an item that contributes its name and nothing of its description
name_keywords_names_only(item) ==
    LET nm == str_strip(item.name)
    IN  IF nm = <<>> THEN {} ELSE {str_lower(nm)}

\* keywords contributed by one named item (table, column, measure, dimension)
name_keywords(item) ==
    LET nm   == str_strip(item.name)
        desc == str_strip(item.description)
    IN  IF nm = <<>> THEN {}
        ELSE {str_lower(nm)} \cup (IF desc = <<>> THEN {} ELSE desc_words(desc))

\* the names appended to source_info['tables'|'columns'|'measures'|'dimensions']
RECURSIVE item_names(_)
item_names(items) ==
    IF items = <<>> THEN <<>>
    ELSE LET nm == str_strip(Head(items).name)
         IN  (IF nm = <<>> THEN <<>> ELSE <<nm>>) \o item_names(Tail(items))

\* the synonyms of one column or measure: those that are not blank
synonym_set(item) ==
    {str_strip(str_lower(s)) : s \in {t \in Range(item.synonyms) : str_strip(t) # <<>>}}

\* all columns of all tables of a model, in declaration order
RECURSIVE all_columns(_)
all_columns(tables) ==
    IF tables = <<>> THEN <<>>
    ELSE Head(tables).columns \o all_columns(Tail(tables))

\* the source_info of one logical model (lines 53-133)
build_source_info(model) ==
    LET source_name == str_strip(model.name)
        cols        == all_columns(model.tables)
        syns        == UNION ({synonym_set(c) : c \in Range(cols)}
                              \cup {synonym_set(m) : m \in Range(model.measures)})
        kws         == UNION ({name_keywords(t) : t \in Range(model.tables)}
                              \cup {name_keywords(c) : c \in Range(cols)}
                              \cup {name_keywords(m) : m \in Range(model.measures)}
                              \cup {name_keywords(d) : d \in Range(model.dimensions)})
                       \cup syns
    IN  [key         |-> str_lower(source_name),
         name        |-> source_name,
         description |-> str_strip(model.description),
         keywords    |-> kws,
         tables      |-> item_names(model.tables),
         columns     |-> item_names(cols),
         synonyms    |-> syns,
         measures    |-> item_names(model.measures),
         dimensions  |-> item_names(model.dimensions)]

\* the loop over semantic_model['logical_models'] (lines 45-139)
RECURSIVE build_catalog(_, _)
build_catalog(models, acc) ==
    IF models = <<>> THEN acc
    ELSE LET model == Head(models)
             info  == build_source_info(model)
         IN  IF str_strip(model.name) = <<>>
             THEN build_catalog(Tail(models), acc)
             ELSE IF info.keywords # {}
                  THEN build_catalog(Tail(models), catalog_put(acc, info))
                  ELSE build_catalog(Tail(models), acc)

\* YAML values that are not strings: null and an integer. A string is a tuple of
\* one-character strings, so neither of them is one.
PyNone == <<"None">>

PyInt == <<"int">>

is_str(v) == v # PyNone /\ v # PyInt

\* .strip() on a value that is not a str raises AttributeError
strip_raises(v) == ~is_str(v)

\* the calls on one table, column, measure or dimension that raise, in the order
\* they are made: name.strip(), description.strip() when the name is not blank,
\* and synonym.strip() for each synonym of a column or measure
item_raises(item, has_synonyms) ==
    \/ strip_raises(item.name)
    \/ str_strip(item.name) # <<>> /\ strip_raises(item.description)
    \/ has_synonyms /\ \E s \in Range(item.synonyms) : strip_raises(s)

table_raises(table) ==
    \/ item_raises(table, FALSE)
    \/ \E c \in Range(table.columns) : item_raises(c, TRUE)

\* one iteration of the loop of line 47 raises; a model with a blank name is
\* left by `continue` before anything else of it is read
model_raises(model) ==
    \/ strip_raises(model.name)
    \/ /\ str_strip(model.name) # <<>>
       /\ \/ strip_raises(model.description)
          \/ \E t \in Range(model.tables) : table_raises(t)
          \/ \E m \in Range(model.measures) : item_raises(m, TRUE)
          \/ \E d \in Range(model.dimensions) : item_raises(d, FALSE)

\* the file could not be parsed: yaml.safe_load raises
YamlUnparseable == [unparseable |-> TRUE]

\* a loader that falls back to a built-in catalog whatever the file holds
load_builtin_catalog(yaml) ==
    <<[key         |-> <<"x">>,
       name        |-> <<"X">>,
       description |-> <<>>,
       keywords    |-> {<<"s", "h", "o", "w">>},
       tables      |-> << <<"S", "h", "o", "w">> >>,
       columns     |-> <<>>,
       synonyms    |-> {},
       measures    |-> <<>>,
       dimensions  |-> <<>>]>>

\* load_semantic_model_structure on the content of the YAML file: None when the
\* file is missing or empty (line 39), YamlUnparseable when it does not parse,
\* otherwise the parsed mapping. Any exception ends in the handler of line 141,
\* which returns the empty catalog.
load_semantic_model_structure(yaml) ==
    IF yaml = None \/ yaml = YamlUnparseable THEN <<>>
    ELSE IF \E i \in DOMAIN yaml.logical_models : model_raises(yaml.logical_models[i])
         THEN <<>>
         ELSE build_catalog(yaml.logical_models, <<>>)

-----------------------------------------------------------------------------
(* analyze_question_for_sources: the question matcher                      *)

\* the bonus loop with == in place of `in`
RECURSIVE exact_bonus_equal(_, _, _, _)
exact_bonus_equal(kind, names, question_lower, acc) ==
    IF names = <<>> THEN acc
    ELSE LET n == Head(names)
         IN  IF str_lower(n) = question_lower
             THEN exact_bonus_equal(kind, Tail(names), question_lower,
                              [score |-> acc.score + 2,
                               exact_matches |->
                                   Append(acc.exact_matches, [kind |-> kind, name |-> n])])
             ELSE exact_bonus_equal(kind, Tail(names), question_lower, acc)

\* one of the three bonus loops (lines 171-184): +2 and one "kind: name" record
\* for every entry of `names` whose lowercase form occurs in question_lower
RECURSIVE exact_bonus(_, _, _, _)
exact_bonus(kind, names, question_lower, acc) ==
    IF names = <<>> THEN acc
    ELSE LET n == Head(names)
         IN  IF str_in(str_lower(n), question_lower)
             THEN exact_bonus(kind, Tail(names), question_lower,
                              [score |-> acc.score + 2,
                               exact_matches |->
                                   Append(acc.exact_matches, [kind |-> kind, name |-> n])])
             ELSE exact_bonus(kind, Tail(names), question_lower, acc)

\* the body of the loop for one source whose word overlap is `matches`
score_source(source_info, matches, question_lower) ==
    LET a0 == [score |-> Cardinality(matches), exact_matches |-> <<>>]
        a1 == exact_bonus("table", source_info.tables, question_lower, a0)
        a2 == exact_bonus("column", source_info.columns, question_lower, a1)
        a3 == exact_bonus("measure", source_info.measures, question_lower, a2)
    IN  [name             |-> source_info.name,
         score            |-> a3.score,
         matched_keywords |-> matches,
         exact_matches    |-> a3.exact_matches,
         description      |-> source_info.description]

\* a matcher that accepts a keyword when a question word starts with it
word_overlap_prefix(question_words, source_info) ==
    {k \in source_info.keywords :
        \E w \in question_words : Len(k) <= Len(w) /\ SubSeq(w, 1, Len(k)) = k}

\* question_words.intersection(keywords)
word_overlap(question_words, source_info) == question_words \cap source_info.keywords

RECURSIVE analyze_loop(_, _, _, _)
analyze_loop(sources, question_words, question_lower, acc) ==
    IF sources = <<>> THEN acc
    ELSE LET source_info == Head(sources)
             matches     == word_overlap(question_words, source_info)
         IN  IF matches # {}
             THEN analyze_loop(Tail(sources), question_words, question_lower,
                      dict_put(acc, score_source(source_info, matches, question_lower)))
             ELSE analyze_loop(Tail(sources), question_words, question_lower, acc)

analyze_question_for_sources(q, sources) ==
    IF sources = <<>> THEN <<>>
    ELSE LET question_lower == str_lower(q)
             question_words == Range(re_findall_words(question_lower))
         IN  analyze_loop(sources, question_words, question_lower, <<>>)

-----------------------------------------------------------------------------
(* determine_routing_strategy: the routing strategy selector               *)

DefaultThreshold == 2

\* an ascending sort read backwards: equal scores come out in reverse input order
RECURSIVE sorted_by_score_reversed(_)
sorted_by_score_reversed(s) ==
    IF s = <<>> THEN <<>>
    ELSE LET h    == Head(s)
             rest == sorted_by_score_reversed(Tail(s))
             k    == Cardinality({i \in DOMAIN rest : rest[i].score >= h.score})
         IN  SubSeq(rest, 1, k) \o <<h>> \o SubSeq(rest, k + 1, Len(rest))

\* sorted(items, key=score, reverse=True): a stable sort, equal scores keep
\* the order of the input
RECURSIVE sorted_by_score_desc(_)
sorted_by_score_desc(s) ==
    IF s = <<>> THEN <<>>
    ELSE LET h    == Head(s)
             rest == sorted_by_score_desc(Tail(s))
             \* h goes in front of the first element that does not beat it
             k    == Cardinality({i \in DOMAIN rest : rest[i].score > h.score})
         IN  SubSeq(rest, 1, k) \o <<h>> \o SubSeq(rest, k + 1, Len(rest))

\* the filter with > in place of >=
filter_relevant_strict(matches, th) == SelectSeq(matches, LAMBDA m : m.score > th)

\* {name: info for name, info in source_matches.items() if info['score'] >= threshold}
filter_relevant(matches, th) == SelectSeq(matches, LAMBDA m : m.score >= th)

determine_routing_strategy(matches, th) ==
    IF matches = <<>>
    THEN [strategy |-> "normal", sources |-> <<>>, details |-> <<>>]
    ELSE LET relevant_sources == filter_relevant(matches, th)
         IN  IF Len(relevant_sources) = 0
             THEN [strategy |-> "normal", sources |-> <<>>, details |-> <<>>]
             ELSE IF Len(relevant_sources) = 1
                  THEN [strategy |-> "direct",
                        sources  |-> <<relevant_sources[1].name>>,
                        details  |-> relevant_sources]
                  ELSE LET sorted_sources == sorted_by_score_desc(relevant_sources)
                       IN  [strategy |-> "clarify",
                            sources  |-> [i \in DOMAIN sorted_sources |->
                                              sorted_sources[i].name],
                            details  |-> relevant_sources]

-----------------------------------------------------------------------------
(* Inputs of the matcher and the selector                                  *)

MaxQLen == 4       \* longest enumerated question, in characters
MaxSources == 3    \* most logical models in an enumerated schema
MaxMatches == 3    \* most entries in an enumerated source_matches
MaxScore == 3      \* largest enumerated score
MaxThreshold == 3  \* largest enumerated threshold

QAlphabet == {"a", "B", " "}

Questions == UNION {[1..n -> QAlphabet] : n \in 0..MaxQLen}

Column(nm, syns) == [name |-> nm, description |-> <<>>, synonyms |-> syns]

Table(nm, cols) == [name |-> nm, description |-> <<>>, columns |-> cols]

Measure(nm, syns) == [name |-> nm, description |-> <<>>, synonyms |-> syns]

LogicalModel(nm, desc, tabs, meas) ==
    [name |-> nm, description |-> desc, tables |-> tabs, measures |-> meas,
     dimensions |-> <<>>]

\* table a
ModelX == LogicalModel(<<"X">>, <<>>, <<Table(<<"a">>, <<>>)>>, <<>>)

\* table B
ModelY == LogicalModel(<<"Y">>, <<>>, <<Table(<<"B">>, <<>>)>>, <<>>)

\* tables B and BB, each declaring a column a
ModelZ == LogicalModel(<<"Z">>, <<>>,
              <<Table(<<"B">>, <<Column(<<"a">>, <<>>)>>),
                Table(<<"B", "B">>, <<Column(<<"a">>, <<>>)>>)>>, <<>>)

\* no table; a measure "B a" with the synonym "aa"
ModelW == LogicalModel(<<"W">>, <<>>, <<>>,
              <<Measure(<<"B", " ", "a">>, << <<"a", "a">> >>)>>)

MatchModels == {ModelX, ModelY, ModelZ, ModelW}

IsInjective(s) == \A i, j \in DOMAIN s : s[i] = s[j] => i = j

MatchSchemas ==
    {[logical_models |-> ms] :
        ms \in {t \in UNION {[1..n -> MatchModels] : n \in 0..MaxSources} :
                   IsInjective(t)}}

RouteNames == {<<"X">>, <<"Y">>, <<"Z">>}

RouteEntry(nm, sc) ==
    [name |-> nm, score |-> sc, matched_keywords |-> {}, exact_matches |-> <<>>,
     description |-> <<>>]

RouteInputs ==
    {[i \in DOMAIN ns |-> RouteEntry(ns[i][1], ns[i][2])] :
        ns \in {t \in UNION {[1..n -> RouteNames \X (1..MaxScore)] : n \in 0..MaxMatches} :
                   \A i, j \in DOMAIN t : t[i][1] = t[j][1] => i = j}}

IdleSession ==
    /\ messages = <<>>
    /\ pending_clarification = None
    /\ warnings = <<>>
    /\ fire_API_error_notify = FALSE
    /\ last = None

InitMatch ==
    /\ IdleSession
    /\ \E yaml \in MatchSchemas :
           /\ semantic_model = yaml
           /\ data_sources = load_semantic_model_structure(yaml)
    /\ source_arg = <<>>
    /\ response_warnings = <<>>
    /\ enhanced = <<>>
    /\ question \in Questions
    /\ threshold = DefaultThreshold
    /\ source_matches = <<>>
    /\ route = None
    /\ pc = "start"

InitRoute ==
    /\ IdleSession
    /\ data_sources = <<>>
    /\ semantic_model = None
    /\ source_arg = <<>>
    /\ response_warnings = <<>>
    /\ enhanced = <<>>
    /\ question = <<>>
    /\ threshold \in 1..MaxThreshold
    /\ source_matches \in RouteInputs
    /\ route = None
    /\ pc = "analyzed"

\* source_matches = analyze_question_for_sources(prompt, data_sources)
Analyze ==
    /\ pc = "start"
    /\ source_matches' = analyze_question_for_sources(question, data_sources)
    /\ pc' = "analyzed"
    /\ UNCHANGED <<data_sources, messages, pending_clarification, warnings,
                   fire_API_error_notify, last, question, threshold, route,
                   semantic_model, source_arg, enhanced,
                   response_warnings>>

\* strategy, relevant_sources, match_details = determine_routing_strategy(...)
Decide ==
    /\ pc = "analyzed"
    /\ route' = determine_routing_strategy(source_matches, threshold)
    /\ pc' = "decided"
    /\ UNCHANGED <<data_sources, messages, pending_clarification, warnings,
                   fire_API_error_notify, last, question, threshold, source_matches,
                   semantic_model, source_arg, enhanced,
                   response_warnings>>

NextMatch == Analyze \/ Decide

SpecMatch == InitMatch /\ [][NextMatch]_vars

NextRoute == Decide

SpecRoute == InitRoute /\ [][NextRoute]_vars

-----------------------------------------------------------------------------
(* Properties of the selector and the matcher                              *)

\* the positions of source_matches whose score reaches the threshold
Relevant == {i \in DOMAIN source_matches : source_matches[i].score >= threshold}

\* C3: determine_routing_strategy returns 'normal' with no source exactly when
\* no score reaches the threshold, 'direct' with exactly that source when one
\* does, and 'clarify' with all and only the sources that do when two or more do.
C3_StrategyByCount ==
    pc = "decided" =>
        /\ (Relevant = {}) <=> (route.strategy = "normal")
        /\ (Cardinality(Relevant) = 1) <=> (route.strategy = "direct")
        /\ (Cardinality(Relevant) >= 2) <=> (route.strategy = "clarify")
        /\ Len(route.sources) = Cardinality(Relevant)
        /\ Range(route.sources) = {source_matches[i].name : i \in Relevant}
        /\ route.strategy = "clarify" => Len(route.sources) >= 2
        /\ route.strategy = "direct" => Len(route.sources) = 1

\* a single matched source below the threshold was decided 'normal', or a
\* clarify left a source below the threshold out
C3_Witness ==
    /\ pc = "decided"
    /\ \/ route.strategy = "normal" /\ Len(source_matches) = 1
       \/ route.strategy = "clarify" /\ Len(route.sources) < Len(source_matches)

\* the score the matcher gave the source called nm
ScoreOf(nm) ==
    LET i == CHOOSE j \in DOMAIN source_matches : source_matches[j].name = nm
    IN  source_matches[i].score

\* the position of the source called nm in the catalog
CatalogIndex(nm) == CHOOSE j \in DOMAIN data_sources : data_sources[j].name = nm

\* C4: a 'clarify' candidate list is in descending score order, and candidates
\* of equal score are in the order of their sources in the catalog.
C4_ClarifyOrder ==
    (pc = "decided" /\ route.strategy = "clarify") =>
        \A i, j \in DOMAIN route.sources :
            i < j =>
                \/ ScoreOf(route.sources[i]) > ScoreOf(route.sources[j])
                \/ /\ ScoreOf(route.sources[i]) = ScoreOf(route.sources[j])
                   /\ CatalogIndex(route.sources[i]) < CatalogIndex(route.sources[j])

\* three candidates, two of them tied, and the best one not first in the catalog
C4_Witness ==
    /\ pc = "decided"
    /\ route.strategy = "clarify"
    /\ Len(route.sources) = 3
    /\ \E i, j \in DOMAIN route.sources :
           i < j /\ ScoreOf(route.sources[i]) = ScoreOf(route.sources[j])
    /\ CatalogIndex(route.sources[1]) > 1

\* the declared table, column and measure names of a source, one entry per
\* declaration
DeclaredNames(s) == s.tables \o s.columns \o s.measures

\* the declarations of s whose name occurs in the question
Hits(s, q) ==
    {i \in DOMAIN DeclaredNames(s) : str_in(str_lower(DeclaredNames(s)[i]), str_lower(q))}

Overlap(s, q) == Range(re_findall_words(str_lower(q))) \cap s.keywords

HasMatch(ms, s) == \E i \in DOMAIN ms : ms[i].name = s.name

MatchOf(ms, s) == ms[CHOOSE i \in DOMAIN ms : ms[i].name = s.name]

\* C7: a source has an entry exactly when the question's word set meets its
\* keywords, its score is then the size of the overlap plus 2 for every
\* declared table, column and measure name occurring in the question (a name
\* counts once per declaration), and every score is at least 1.
C7_ScoreFormula ==
    pc # "start" =>
        /\ \A k \in DOMAIN data_sources :
               LET s == data_sources[k]
               IN  /\ HasMatch(source_matches, s) <=> (Overlap(s, question) # {})
                   /\ HasMatch(source_matches, s) =>
                          MatchOf(source_matches, s).score =
                              Cardinality(Overlap(s, question))
                                  + 2 * Cardinality(Hits(s, question))
        /\ \A i \in DOMAIN source_matches :
               /\ source_matches[i].score >= 1
               /\ \E k \in DOMAIN data_sources :
                      data_sources[k].name = source_matches[i].name
        /\ IsInjective([i \in DOMAIN source_matches |-> source_matches[i].name])

\* one source is absent although one of its names occurs in the question, and
\* another is present with a bonus
C7_Witness ==
    /\ pc = "analyzed"
    /\ \E k \in DOMAIN data_sources :
           /\ ~HasMatch(source_matches, data_sources[k])
           /\ Hits(data_sources[k], question) # {}
    /\ \E i \in DOMAIN source_matches :
           source_matches[i].score > Cardinality(source_matches[i].matched_keywords)

\* the distinct table, column and measure identifiers of s occurring in q
DistinctHits(names, q) == {n \in Range(names) : str_in(str_lower(n), str_lower(q))}

\* C8: the table, column and measure names of a source score as sets: an
\* identifier occurring in the question adds +2 once, however often the schema
\* declares it.
C8_NamesScoreAsSets ==
    pc # "start" =>
        \A k \in DOMAIN data_sources :
            LET s == data_sources[k]
            IN  HasMatch(source_matches, s) =>
                    MatchOf(source_matches, s).score =
                        Cardinality(Overlap(s, question))
                            + 2 * ( Cardinality(DistinctHits(s.tables, question))
                                  + Cardinality(DistinctHits(s.columns, question))
                                  + Cardinality(DistinctHits(s.measures, question)) )

\* the question followed (or preceded) by a mention of the name n
Mentioned(q, n) == {q \o <<" ">> \o n, n \o <<" ">> \o q}

\* C9: adding a mention of one of a source's table, column or measure names
\* to a question keeps the source matched and does not lower its score.
C9_MentionMonotonic ==
    pc = "analyzed" =>
        \A k \in DOMAIN data_sources :
            LET s == data_sources[k]
            IN  HasMatch(source_matches, s) =>
                    \A n \in Range(DeclaredNames(s)) :
                        \A q2 \in Mentioned(question, n) :
                            LET ms2 == analyze_question_for_sources(q2, data_sources)
                            IN  /\ HasMatch(ms2, s)
                                /\ MatchOf(ms2, s).score
                                       >= MatchOf(source_matches, s).score

\* a matched source whose score a mention of a name the question lacks raises
C9_Witness ==
    /\ pc = "analyzed"
    /\ \E k \in DOMAIN data_sources :
           LET s == data_sources[k]
           IN  /\ HasMatch(source_matches, s)
               /\ \E n \in Range(DeclaredNames(s)) :
                      /\ ~str_in(str_lower(n), str_lower(question))
                      /\ \E q2 \in Mentioned(question, n) :
                             MatchOf(analyze_question_for_sources(q2, data_sources), s).score
                                 > MatchOf(source_matches, s).score

-----------------------------------------------------------------------------
(* String literals of the program and of the scenarios                     *)

\* "Salesforce CRM"
STR_SalesforceCRM ==
    <<"S","a","l","e","s","f","o","r","c","e"," ","C","R","M">>

\* "SAP ERP"
STR_SAPERP ==
    <<"S","A","P"," ","E","R","P">>

\* "Account"
STR_Account ==
    <<"A","c","c","o","u","n","t">>

\* "Opportunity"
STR_Opportunity ==
    <<"O","p","p","o","r","t","u","n","i","t","y">>

\* "Lead"
STR_Lead ==
    <<"L","e","a","d">>

\* "Invoice"
STR_Invoice ==
    <<"I","n","v","o","i","c","e">>

\* "Vendor"
STR_Vendor ==
    <<"V","e","n","d","o","r">>

\* "What questions can I ask?"
STR_SystemQuestion ==
    <<"W","h","a","t"," ","q","u","e","s","t","i","o","n","s"," ","c","a","n",
    " ","I"," ","a","s","k","?">>

\* "What questions can I ask"
STR_SystemQuestionPrefix ==
    <<"W","h","a","t"," ","q","u","e","s","t","i","o","n","s"," ","c","a","n",
    " ","I"," ","a","s","k">>

\* "show me accounts"
STR_ShowMeAccounts ==
    <<"s","h","o","w"," ","m","e"," ","a","c","c","o","u","n","t","s">>

\* "show me account and opportunity data"
STR_ShowAccountOpportunity ==
    <<"s","h","o","w"," ","m","e"," ","a","c","c","o","u","n","t"," ","a","n",
    "d"," ","o","p","p","o","r","t","u","n","i","t","y"," ","d","a","t","a">>

\* "account and invoice"
STR_AccountAndInvoice ==
    <<"a","c","c","o","u","n","t"," ","a","n","d"," ","i","n","v","o","i","c",
    "e">>

\* "I meant SAP"
STR_IMeantSAP ==
    <<"I"," ","m","e","a","n","t"," ","S","A","P">>

\* "sap erp or Salesforce CRM"
STR_BothNames ==
    <<"s","a","p"," ","e","r","p"," ","o","r"," ","S","a","l","e","s","f","o",
    "r","c","e"," ","C","R","M">>

\* "Focus on data from "
STR_FocusOn ==
    <<"F","o","c","u","s"," ","o","n"," ","d","a","t","a"," ","f","r","o","m",
    " ">>

\* " ("
STR_OpenParen ==
    <<" ","(">>

\* ")"
STR_CloseParen ==
    <<")">>

\* ". Question: "
STR_QuestionLabel ==
    <<"."," ","Q","u","e","s","t","i","o","n",":"," ">>

\* "synonyms are duplicated"
STR_SynonymsDuplicated ==
    <<"s","y","n","o","n","y","m","s"," ","a","r","e"," ","d","u","p","l","i",
    "c","a","t","e","d">>

\* "synonym"
STR_Synonym ==
    <<"s","y","n","o","n","y","m">>

\* "may want to rename"
STR_MayWantToRename ==
    <<"m","a","y"," ","w","a","n","t"," ","t","o"," ","r","e","n","a","m",
    "e">>

\* "to avoid ambiguity"
STR_ToAvoidAmbiguity ==
    <<"t","o"," ","a","v","o","i","d"," ","a","m","b","i","g","u","i","t",
    "y">>

\* "found in columns"
STR_FoundInColumns ==
    <<"f","o","u","n","d"," ","i","n"," ","c","o","l","u","m","n","s">>

\* "Synonym x is duplicated"
STR_WarnSynonym ==
    <<"S","y","n","o","n","y","m"," ","x"," ","i","s"," ","d","u","p","l","i",
    "c","a","t","e","d">>

\* "result truncated"
STR_WarnTruncated ==
    <<"r","e","s","u","l","t"," ","t","r","u","n","c","a","t","e","d">>

-----------------------------------------------------------------------------
(* create_source_enhancement_prompt, create_clarification_message,         *)
(* filter_warnings, get_analyst_response                                   *)

\* prompt.startswith(prefix)
str_startswith(s, prefix) ==
    Len(prefix) <= Len(s) /\ SubSeq(s, 1, Len(prefix)) = prefix

\* the lookup of line 261 without the two .lower() calls
create_source_enhancement_prompt_exact_case(q, selected_source, sources) ==
    LET found == {i \in DOMAIN sources : sources[i].name = selected_source}
    IN  IF found = {} THEN q
        ELSE LET source_info == sources[CHOOSE i \in found : \A j \in found : i <= j]
             IN  STR_FocusOn \o selected_source
                     \o (IF source_info.description # <<>>
                         THEN STR_OpenParen \o source_info.description \o STR_CloseParen
                         ELSE <<>>)
                     \o STR_QuestionLabel \o q

create_source_enhancement_prompt(q, selected_source, sources) ==
    LET found == {i \in DOMAIN sources :
                     str_lower(sources[i].name) = str_lower(selected_source)}
    IN  IF found = {} THEN q
        ELSE LET source_info == sources[CHOOSE i \in found : \A j \in found : i <= j]
             IN  STR_FocusOn \o selected_source
                     \o (IF source_info.description # <<>>
                         THEN STR_OpenParen \o source_info.description \o STR_CloseParen
                         ELSE <<>>)
                     \o STR_QuestionLabel \o q

\* details['matched_keywords'][:5]: any five of them when there are more
FirstFive(kws) ==
    IF Cardinality(kws) <= 5 THEN {kws} ELSE {k \in SUBSET kws : Cardinality(k) = 5}

\* the message is kept as its parts: the quoted question and one numbered entry
\* per source with its description and its evidence line
create_clarification_message(q, relevant_sources, match_details) ==
    LET detail(nm) ==
            match_details[CHOOSE i \in DOMAIN match_details : match_details[i].name = nm]
        entries(i) ==
            LET d == detail(relevant_sources[i])
            IN  {[number      |-> i,
                  source      |-> relevant_sources[i],
                  description |-> d.description,
                  found       |-> d.exact_matches,
                  related     |-> IF d.exact_matches # <<>> THEN {} ELSE r] :
                     r \in FirstFive(d.matched_keywords)}
    IN  {[clarification_for |-> q, entries |-> e] :
            e \in {f \in [DOMAIN relevant_sources ->
                             UNION {entries(i) : i \in DOMAIN relevant_sources}] :
                      \A i \in DOMAIN relevant_sources : f[i] \in entries(i)}}

SkipPatterns == {STR_MayWantToRename, STR_ToAvoidAmbiguity, STR_FoundInColumns}

\* a test that compares the message as it came, without .lower()
is_skipped_case_sensitive(warning) ==
    LET message == IF "message" \in DOMAIN warning THEN warning.message ELSE <<>>
    IN  \/ str_in(STR_SynonymsDuplicated, message) \/ str_in(STR_Synonym, message)
        \/ \E skip_pattern \in SkipPatterns : str_in(skip_pattern, message)

\* the test of one warning in the loop of filter_warnings
is_skipped(warning) ==
    LET message == str_lower(IF "message" \in DOMAIN warning
                             THEN warning.message ELSE <<>>)
    IN  \/ str_in(STR_SynonymsDuplicated, message) \/ str_in(STR_Synonym, message)
        \/ \E skip_pattern \in SkipPatterns : str_in(skip_pattern, message)

filter_warnings(ws) == SelectSeq(ws, LAMBDA w : ~is_skipped(w))

\* What the Cortex Analyst call can come back with: an HTTP status and a parsed
\* JSON body, or an exception raised by the request or by json.loads.
AnswerContent == <<[type |-> "text", text |-> "answer"]>>

ResponseWarnings ==
    <<[message |-> STR_WarnSynonym], [message |-> STR_WarnTruncated]>>

ApiOutcomes ==
    { [raised |-> FALSE, status |-> 200,
       body |-> [message |-> [content |-> AnswerContent], request_id |-> "req-ok",
                 warnings |-> ResponseWarnings]],
      [raised |-> FALSE, status |-> 500,
       body |-> [message |-> "internal error", request_id |-> "req-err",
                 error_code |-> "500"]],
      [raised |-> FALSE, status |-> 400,
       body |-> [message |-> "bad request"]],
      [raised |-> TRUE] }

HasKey(d, k) == k \in DOMAIN d

\* get_analyst_response: (response, error_msg)
get_analyst_response(api) ==
    IF api.raised
    THEN [response  |-> [request_id |-> "error"],
          error_msg |-> [error |-> "connection"]]
    ELSE IF api.status < 400
         THEN [response |-> api.body, error_msg |-> None]
         ELSE [response  |-> api.body,
               error_msg |->
                   [error      |-> "api",
                    status     |-> api.status,
                    request_id |-> IF HasKey(api.body, "request_id")
                                   THEN api.body.request_id ELSE "N/A",
                    error_code |-> IF HasKey(api.body, "error_code")
                                   THEN api.body.error_code ELSE "N/A",
                    message    |-> IF HasKey(api.body, "message")
                                   THEN api.body.message ELSE "Unknown error"]]

-----------------------------------------------------------------------------
(* The conversation: main, handle_user_inputs, process_user_input          *)

MaxMessages == 6   \* longest transcript a new turn may start from, plus two

ScenarioSalesforce ==
    LogicalModel(STR_SalesforceCRM, <<>>,
        <<Table(STR_Account, <<>>), Table(STR_Opportunity, <<>>), Table(STR_Lead, <<>>)>>,
        <<>>)

ScenarioSAP ==
    LogicalModel(STR_SAPERP, <<>>,
        <<Table(STR_Invoice, <<>>), Table(STR_Vendor, <<>>)>>, <<>>)

\* the semantic model file: missing, unparseable, without any model, or the two
\* scenario sources in either order
ConversationSchemas ==
    {None,
     YamlUnparseable,
     [logical_models |-> <<>>],
     [logical_models |-> <<ScenarioSalesforce, ScenarioSAP>>],
     [logical_models |-> <<ScenarioSAP, ScenarioSalesforce>>]}

\* what the user types, or the suggestion the user clicks
Prompts ==
    {STR_ShowMeAccounts, STR_ShowAccountOpportunity, STR_AccountAndInvoice,
     STR_IMeantSAP, STR_BothNames}

UserMessage(prompt) ==
    [role |-> "user", content |-> <<[type |-> "text", text |-> prompt]>>]

\* a loop without the break: the last available source named in the prompt
first_mentioned_no_break(available_sources, prompt) ==
    LET hits == {i \in DOMAIN available_sources :
                    str_in(str_lower(available_sources[i]), str_lower(prompt))}
    IN  IF hits = {} THEN None
        ELSE available_sources[CHOOSE i \in hits : \A j \in hits : j <= i]

\* a loop that accepts a source when any word of its name is in the prompt
first_mentioned_by_word(available_sources, prompt) ==
    LET hits == {i \in DOMAIN available_sources :
                    \E w \in Range(re_findall_words(str_lower(available_sources[i]))) :
                        str_in(w, str_lower(prompt))}
    IN  IF hits = {} THEN None
        ELSE available_sources[CHOOSE i \in hits : \A j \in hits : i <= j]

\* the loop of lines 423-426: the first available source named in the prompt
first_mentioned(available_sources, prompt) ==
    LET hits == {i \in DOMAIN available_sources :
                    str_in(str_lower(available_sources[i]), str_lower(prompt))}
    IN  IF hits = {} THEN None
        ELSE available_sources[CHOOSE i \in hits : \A j \in hits : i <= j]

\* Python truth of selected_source: None and '' are false
Truthy(x) == x # None /\ x # <<>>

\* a reply handler that forgets line 444
pending_after_reply_kept(mentioned) ==
    IF Truthy(mentioned) THEN None ELSE pending_clarification

\* lines 433 and 444: both branches of the reply clear the pending clarification
pending_after_reply(mentioned) ==
    IF Truthy(mentioned) THEN None ELSE None

\* lines 415-447: the reply to a clarification request
resolve_clarification(prompt) ==
    LET original_question == pending_clarification.original_question
        available_sources == pending_clarification.available_sources
        mentioned         == first_mentioned(available_sources, prompt)
        selected_source   == IF Truthy(mentioned) THEN mentioned ELSE available_sources[1]
    IN  [routed            |-> FALSE,
         strategy          |-> "none",
         matches           |-> <<>>,
         sources           |-> <<>>,
         details           |-> <<>>,
         available_sources |-> available_sources,
         selected_source   |-> selected_source,
         pending           |-> pending_after_reply(mentioned),
         enhanced_prompt   |-> create_source_enhancement_prompt(
                                   original_question, selected_source, data_sources)]

\* a clarification that remembers only the best candidate
new_pending_top_only(prompt, relevant_sources) ==
    [original_question |-> prompt, available_sources |-> <<relevant_sources[1]>>]

\* lines 462-465: the clarification state stored on a 'clarify' turn
new_pending(prompt, relevant_sources) ==
    [original_question |-> prompt, available_sources |-> relevant_sources]

\* lines 448-489: routing of a new question
route_question(prompt) ==
    IF data_sources # <<>> /\ ~str_startswith(prompt, STR_SystemQuestionPrefix)
    THEN LET ms == analyze_question_for_sources(prompt, data_sources)
             r  == determine_routing_strategy(ms, DefaultThreshold)
         IN  [routed            |-> TRUE,
              strategy          |-> r.strategy,
              matches           |-> ms,
              sources           |-> r.sources,
              details           |-> r.details,
              available_sources |-> <<>>,
              selected_source   |-> IF r.strategy = "direct" THEN r.sources[1] ELSE <<>>,
              pending           |->
                  IF r.strategy = "clarify"
                  THEN new_pending(prompt, r.sources)
                  ELSE pending_clarification,
              enhanced_prompt   |->
                  IF r.strategy = "direct"
                  THEN create_source_enhancement_prompt(prompt, r.sources[1], data_sources)
                  ELSE prompt]
    ELSE [routed            |-> FALSE,
          strategy          |-> "none",
          matches           |-> <<>>,
          sources           |-> <<>>,
          details           |-> <<>>,
          available_sources |-> <<>>,
          selected_source   |-> <<>>,
          pending           |-> pending_clarification,
          enhanced_prompt   |-> prompt]

StripMessage(m) == [role |-> m.role, content |-> m.content]

\* a payload that keeps the raw user turn and adds the enhanced one after it
messages_for_api_with_raw(msgs, enhanced_prompt) ==
    [i \in 1..Len(msgs) |-> StripMessage(msgs[i])]
        \o <<UserMessage(enhanced_prompt)>>

\* lines 497-509
messages_for_api(msgs, enhanced_prompt) ==
    [i \in 1..(Len(msgs) - 1) |-> StripMessage(msgs[i])]
        \o <<UserMessage(enhanced_prompt)>>

\* a handler that starts the transcript again with each input
append_user_message_fresh(msgs, prompt) == <<UserMessage(prompt)>>

\* lines 408-412: the user turn is appended to the transcript
append_user_message(msgs, prompt) == Append(msgs, UserMessage(prompt))

\* a handler that routes every input, pending clarification or not
turn_of_always_routed(prompt) == route_question(prompt)

\* lines 414-489: the branch taken and the locals it sets
turn_of(prompt) ==
    IF pending_clarification # None
    THEN resolve_clarification(prompt)
    ELSE route_question(prompt)

\* process_user_input(prompt); `api` is what the Cortex Analyst call comes back
\* with when the turn makes it
process_user_input(prompt) ==
    \E turn \in {turn_of(prompt)} :
        LET msgs1       == append_user_message(messages, prompt)
            had_pending == pending_clarification # None
            base        == [prompt            |-> prompt,
                            had_pending       |-> had_pending,
                            routed            |-> turn.routed,
                            strategy          |-> turn.strategy,
                            matches           |-> turn.matches,
                            available_sources |-> turn.available_sources,
                            selected_source   |-> turn.selected_source]
        IN  IF ~had_pending /\ turn.strategy = "clarify"
            THEN \* lines 457-474: ask and return
                 \E msg \in create_clarification_message(prompt, turn.sources,
                                                         turn.details) :
                    /\ pending_clarification' = turn.pending
                    /\ messages' = Append(msgs1,
                           [role |-> "assistant",
                            content |-> <<[type |-> "text", text |-> msg]>>])
                    /\ warnings' = <<>>
                    /\ last' = base @@ [outcome |-> "clarify", api |-> None,
                                        enhanced_prompt |-> <<>>, sent |-> <<>>]
                    /\ UNCHANGED fire_API_error_notify
            ELSE \* lines 491-536: the call to the NL-to-SQL service
                 \E api \in ApiOutcomes : \E got \in {get_analyst_response(api)} :
                 LET sent == messages_for_api(msgs1, turn.enhanced_prompt)
                     done == base @@ [enhanced_prompt |-> turn.enhanced_prompt,
                                      sent |-> sent, api |-> api]
                 IN  /\ pending_clarification' = turn.pending
                     /\ IF got.error_msg = None
                        THEN /\ messages' = Append(msgs1,
                                    [role       |-> "analyst",
                                     content    |-> got.response.message.content,
                                     request_id |-> got.response.request_id])
                             /\ warnings' = IF HasKey(got.response, "warnings")
                                            THEN filter_warnings(got.response.warnings)
                                            ELSE <<>>
                             /\ last' = done @@ [outcome |-> "answered"]
                             /\ UNCHANGED fire_API_error_notify
                        ELSE IF HasKey(got.response, "request_id")
                             THEN /\ messages' = Append(msgs1,
                                         [role       |-> "analyst",
                                          content    |-> <<[type |-> "text",
                                                            text |-> got.error_msg]>>,
                                          request_id |-> got.response.request_id])
                                  /\ fire_API_error_notify' = TRUE
                                  /\ warnings' =
                                         IF HasKey(got.response, "warnings")
                                         THEN filter_warnings(got.response.warnings)
                                         ELSE <<>>
                                  /\ last' = done @@ [outcome |-> "error_shown"]
                             ELSE \* response["request_id"] raises KeyError, line 526
                                  /\ messages' = msgs1
                                  /\ warnings' = <<>>
                                  /\ last' = done @@ [outcome |-> "key_error"]
                                  /\ UNCHANGED fire_API_error_notify

ConversationUnchanged ==
    UNCHANGED <<data_sources, question, threshold, source_matches, route,
                semantic_model, source_arg, enhanced,
          response_warnings, pc>>

\* main, lines 324-325: the first run asks the system question
MainFirstRun ==
    /\ Len(messages) = 0
    /\ process_user_input(STR_SystemQuestion)
    /\ ConversationUnchanged

\* handle_user_inputs: a chat input or a clicked suggestion is processed
HandleUserInputs ==
    /\ Len(messages) > 0
    /\ Len(messages) + 2 <= MaxMessages
    /\ \E prompt \in Prompts : process_user_input(prompt)
    /\ ConversationUnchanged

\* handle_error_notifications
HandleErrorNotifications ==
    /\ fire_API_error_notify
    /\ fire_API_error_notify' = FALSE
    /\ UNCHANGED <<messages, pending_clarification, warnings, last>>
    /\ ConversationUnchanged

\* reset_session_state and the load of the catalog in main
Init ==
    /\ messages = <<>>
    /\ warnings = <<>>
    /\ pending_clarification = None
    /\ fire_API_error_notify = FALSE
    /\ \E yaml \in ConversationSchemas :
           /\ semantic_model = yaml
           /\ data_sources = load_semantic_model_structure(yaml)
    /\ source_arg = <<>>
    /\ response_warnings = <<>>
    /\ enhanced = <<>>
    /\ last = None
    /\ question = <<>>
    /\ threshold = DefaultThreshold
    /\ source_matches = <<>>
    /\ route = None
    /\ pc = "session"

Next == MainFirstRun \/ HandleUserInputs \/ HandleErrorNotifications

Spec == Init /\ [][Next]_vars

-----------------------------------------------------------------------------
(* Properties of the clarification dialogue                                *)

\* a step that is one call of process_user_input
UserTurn == Len(messages') > Len(messages)

\* C1: a PendingClarification stored when process_user_input starts is cleared
\* by that call, whatever the reply says; none survives the turn after the one
\* that created it.
C1_PendingCleared ==
    [][(pending_clarification # None /\ UserTurn) => pending_clarification' = None]_vars

\* a reply naming no source of the catalog was processed and nothing is pending
C1_Witness ==
    /\ last # None
    /\ last.had_pending
    /\ \A i \in DOMAIN last.available_sources :
           ~str_in(str_lower(last.available_sources[i]), str_lower(last.prompt))
    /\ pending_clarification = None

\* C2: the user turn that follows a clarify outcome is not routed, asks no second
\* clarification and goes on to the NL-to-SQL call with a resolved source.
C2_OneClarificationRound ==
    [][(last # None /\ last.outcome = "clarify" /\ UserTurn) =>
          /\ ~last'.routed
          /\ last'.matches = <<>>
          /\ last'.outcome # "clarify"
          /\ last'.sent # <<>>
          /\ last'.selected_source \in Range(pending_clarification.available_sources)
          /\ messages'[Len(messages')].role # "assistant"]_vars

\* the reply to a clarification is itself a question that would be asked back
C2_Witness ==
    /\ last # None
    /\ last.had_pending
    /\ last.outcome = "answered"
    /\ determine_routing_strategy(
           analyze_question_for_sources(last.prompt, data_sources),
           DefaultThreshold).strategy = "clarify"

\* the stored candidates whose name occurs in the reply, whatever the case
NamedIn(cands, reply) ==
    {i \in DOMAIN cands : str_in(str_lower(cands[i]), str_lower(reply))}

\* C5: a reply resolves to the first stored candidate whose name occurs in it,
\* case-insensitively, or to the candidate at index 0 when none does; the
\* resolution is one of the stored candidates.
C5_FirstMatchResolution ==
    [][(pending_clarification # None /\ UserTurn) =>
          LET cands == pending_clarification.available_sources
              hits  == NamedIn(cands, last'.prompt)
          IN  /\ last'.selected_source \in Range(cands)
              /\ hits = {} => last'.selected_source = cands[1]
              /\ hits # {} =>
                     \E i \in hits : /\ \A j \in hits : i <= j
                                     /\ last'.selected_source = cands[i]]_vars

\* a reply naming both candidates, the second-ranked one first in the text and
\* the first-ranked one in another case, resolved to the first-ranked one
C5_Witness ==
    /\ last # None
    /\ last.had_pending
    /\ last.prompt = STR_BothNames
    /\ last.available_sources = <<STR_SalesforceCRM, STR_SAPERP>>
    /\ last.selected_source = STR_SalesforceCRM

\* the reply "I meant SAP" to a clarification between the two scenario sources
ScenarioCReply ==
    /\ last # None
    /\ last.had_pending
    /\ Range(last.available_sources) = {STR_SalesforceCRM, STR_SAPERP}
    /\ last.prompt = STR_IMeantSAP

\* C6 as stated: in Scenario C the reply "I meant SAP" resolves to "SAP ERP" in
\* either ranked order.
C6_ReplyResolvesToSAP == ScenarioCReply => last.selected_source = STR_SAPERP

\* C6: in Scenario C the reply "I meant SAP" contains neither display name and
\* resolves to the first-ranked candidate, which is "SAP ERP" only when SAP ERP
\* is ranked first.
C6_ReplyResolvesToFirstRanked ==
    ScenarioCReply =>
        /\ NamedIn(last.available_sources, last.prompt) = {}
        /\ last.selected_source = last.available_sources[1]

\* Salesforce CRM ranked first, and the reply "I meant SAP" resolved to it
C6_Witness ==
    /\ ScenarioCReply
    /\ last.available_sources[1] = STR_SalesforceCRM
    /\ last.selected_source = STR_SalesforceCRM

\* the catalog of Scenario A, in either order
ScenarioCatalog ==
    /\ Len(data_sources) = 2
    /\ \E i, j \in DOMAIN data_sources :
           /\ data_sources[i].name = STR_SalesforceCRM
           /\ data_sources[i].keywords =
                  {str_lower(STR_Account), str_lower(STR_Opportunity), str_lower(STR_Lead)}
           /\ data_sources[j].name = STR_SAPERP
           /\ data_sources[j].keywords = {str_lower(STR_Invoice), str_lower(STR_Vendor)}

\* the question "show me accounts" routed against the catalog of Scenario A
ScenarioAQuestion ==
    /\ last # None
    /\ last.routed
    /\ last.prompt = STR_ShowMeAccounts
    /\ ScenarioCatalog

\* C10 as stated: in Scenario A the matcher returns only Salesforce CRM, with
\* score 1, and the selector returns 'normal'.
C10_MatcherReturnsSalesforce ==
    ScenarioAQuestion =>
        /\ Len(last.matches) = 1
        /\ last.matches[1].name = STR_SalesforceCRM
        /\ last.matches[1].score = 1
        /\ last.strategy = "normal"

\* C10: in Scenario A the matcher returns no source at all (the word "accounts"
\* is not the keyword "account"), and the selector returns 'normal'.
C10_MatcherReturnsNothing ==
    ScenarioAQuestion =>
        /\ last.matches = <<>>
        /\ last.strategy = "normal"

\* "show me accounts" was routed against the catalog of Scenario A and sent on
C10_Witness ==
    /\ ScenarioAQuestion
    /\ last.sent # <<>>
    /\ last.enhanced_prompt = STR_ShowMeAccounts


-----------------------------------------------------------------------------
(* The enhancer on its own: create_source_enhancement_prompt applied to a  *)
(* question, a source name and a catalog built from a schema               *)

\* a source "Ab" with one table, with the given description
EnhanceModelAb(desc) ==
    LogicalModel(<<"A", "b">>, desc, <<Table(<<"a">>, <<>>)>>, <<>>)

\* a source "B" described as "y"
EnhanceModelB == LogicalModel(<<"B">>, <<"y">>, <<Table(<<"a">>, <<>>)>>, <<>>)

EnhanceSchemas ==
    {None,
     [logical_models |-> <<EnhanceModelAb(<<>>)>>],
     [logical_models |-> <<EnhanceModelAb(<<"d", " ", "x">>)>>],
     [logical_models |-> <<EnhanceModelB, EnhanceModelAb(<<"d", " ", "x">>)>>],
     [logical_models |-> <<EnhanceModelAb(<<>>), EnhanceModelB>>]}

\* the name as declared, in another case, with a trailing blank, of the other
\* source, and the empty name
EnhanceSelections ==
    {<<"A", "b">>, <<"a", "B">>, <<"a", "b">>, <<"A", "b", " ">>, <<"B">>, <<"b">>, <<>>}

InitEnhance ==
    /\ IdleSession
    /\ \E yaml \in EnhanceSchemas :
           /\ semantic_model = yaml
           /\ data_sources = load_semantic_model_structure(yaml)
    /\ question \in Questions
    /\ source_arg \in EnhanceSelections
    /\ response_warnings = <<>>
    /\ enhanced = <<>>
    /\ threshold = DefaultThreshold
    /\ source_matches = <<>>
    /\ route = None
    /\ pc = "enhance"

Enhance ==
    /\ pc = "enhance"
    /\ enhanced' = create_source_enhancement_prompt(question, source_arg, data_sources)
    /\ pc' = "enhanced"
    /\ UNCHANGED <<data_sources, messages, pending_clarification, warnings,
                   fire_API_error_notify, last, question, threshold, source_matches,
                   route, semantic_model, source_arg, response_warnings>>

NextEnhance == Enhance

SpecEnhance == InitEnhance /\ [][NextEnhance]_vars

\* the catalog entries whose name equals the selected source, ignoring case
NameMatches ==
    {i \in DOMAIN data_sources : str_lower(data_sources[i].name) = str_lower(source_arg)}

\* C11: create_source_enhancement_prompt returns the question unchanged when no
\* catalog entry's name equals the source name ignoring case; otherwise it
\* returns "Focus on data from <source>", then " (<description>)" only when the
\* entry's description is not empty, then ". Question: <question>".
C11_EnhancementFormat ==
    pc = "enhanced" =>
        /\ NameMatches = {} => enhanced = question
        /\ \A i \in NameMatches :
               /\ data_sources[i].description = <<>> =>
                      enhanced = STR_FocusOn \o source_arg \o STR_QuestionLabel \o question
               /\ data_sources[i].description # <<>> =>
                      enhanced = STR_FocusOn \o source_arg \o STR_OpenParen
                                     \o data_sources[i].description \o STR_CloseParen
                                     \o STR_QuestionLabel \o question

\* the source was selected in another case than declared, its entry has a
\* description, and a non-empty question was enhanced
C11_Witness ==
    /\ pc = "enhanced"
    /\ question # <<>>
    /\ \E i \in NameMatches :
           /\ data_sources[i].name # source_arg
           /\ data_sources[i].description # <<>>
    /\ enhanced # question


-----------------------------------------------------------------------------
(* Properties of the transcript and of the call to the NL-to-SQL service   *)

\* C12: on every turn that reaches the NL-to-SQL service the message list sent
\* is the transcript turns that precede the current user turn, in order, followed
\* by exactly one user turn that carries the enhanced string; the transcript
\* records the raw text of the user.
C12_SentPayload ==
    [][(UserTurn /\ last'.outcome # "clarify") =>
          /\ Len(last'.sent) = Len(messages) + 1
          /\ \A i \in DOMAIN messages :
                 /\ last'.sent[i].role = messages[i].role
                 /\ last'.sent[i].content = messages[i].content
          /\ last'.sent[Len(messages) + 1] = UserMessage(last'.enhanced_prompt)
          /\ Len(messages') > Len(messages)
          /\ messages'[Len(messages) + 1] = UserMessage(last'.prompt)]_vars

\* a call was made with an enhanced string that differs from the raw text, after
\* at least a question and its clarification request
C12_Witness ==
    /\ last # None
    /\ last.outcome = "answered"
    /\ last.enhanced_prompt # last.prompt
    /\ Len(last.sent) >= 3
    /\ \E i \in DOMAIN last.sent : last.sent[i].role = "assistant"

\* C13: the transcript is append-only: every step keeps each turn already in it,
\* at its position.
C13_AppendOnly ==
    [][/\ Len(messages') >= Len(messages)
       /\ \A i \in DOMAIN messages :
              /\ messages'[i].role = messages[i].role
              /\ messages'[i] = messages[i]]_vars

\* a transcript with a clarification request, its reply and a service error after
\* them
C13_Witness ==
    /\ last # None
    /\ last.had_pending
    /\ last.outcome = "error_shown"
    /\ Len(messages) >= 5
    /\ \E i \in DOMAIN messages : messages[i].role = "assistant"

\* the matcher's results of the turn that reach the default threshold
TurnCandidates(t) == {i \in DOMAIN t.matches : t.matches[i].score >= DefaultThreshold}

\* a new question, with no clarification pending, for which the matcher scores
\* two or more sources at the threshold or above
ClarifyTurn ==
    /\ UserTurn
    /\ pending_clarification = None
    /\ last'.routed
    /\ Cardinality(TurnCandidates(last')) >= 2

\* the score the matcher gave the source called nm on turn t
TurnScore(t, nm) ==
    t.matches[CHOOSE i \in DOMAIN t.matches : t.matches[i].name = nm].score

\* C14: on a turn whose strategy is 'clarify', a pending clarification with the
\* original question and the full ranked candidate list is stored, a
\* clarification turn is appended to the transcript after the user turn, and the
\* turn ends with no enhanced question and no call to the NL-to-SQL service.
C14_ClarifyTurnStops ==
    [][ClarifyTurn =>
          /\ pending_clarification' # None
          /\ pending_clarification'.original_question = last'.prompt
          /\ LET cands == pending_clarification'.available_sources
             IN  /\ Len(cands) = Cardinality(TurnCandidates(last'))
                 /\ Range(cands) =
                        {last'.matches[i].name : i \in TurnCandidates(last')}
                 /\ \A i, j \in DOMAIN cands :
                        i < j => TurnScore(last', cands[i]) >= TurnScore(last', cands[j])
          /\ Len(messages') = Len(messages) + 2
          /\ messages'[Len(messages) + 1] = UserMessage(last'.prompt)
          /\ messages'[Len(messages) + 2].role = "assistant"
          /\ last'.api = None
          /\ last'.sent = <<>>
          /\ last'.enhanced_prompt = <<>>
          /\ UNCHANGED fire_API_error_notify]_vars

\* a question that names a table of each of the two sources was asked, and the
\* clarification for it is pending with both candidates
C14_Witness ==
    /\ last # None
    /\ last.outcome = "clarify"
    /\ pending_clarification # None
    /\ Len(pending_clarification.available_sources) = 2
    /\ messages[Len(messages)].role = "assistant"

\* the call of the turn failed: an HTTP status of 400 or more, or an exception
FailedCall(t) ==
    /\ t.api # None
    /\ t.api.raised \/ t.api.status >= 400

\* C15 as stated: for every failure outcome of the NL-to-SQL call an analyst turn
\* with the error text is appended to the transcript and the error notification
\* flag is set, and no clarification is pending at the call.
C15_FailureSurfaced ==
    [][(UserTurn /\ FailedCall(last')) =>
          /\ pending_clarification' = None
          /\ messages'[Len(messages')].role = "analyst"
          /\ fire_API_error_notify']_vars

\* the schema file is missing or empty, does not parse, or declares no model
EmptySchema ==
    \/ semantic_model = None
    \/ semantic_model = YamlUnparseable
    \/ semantic_model.logical_models = <<>>

\* C16: with a schema that is missing, empty or unparseable the catalog is empty
\* and, whatever the user types, the strategy is 'normal', no clarification is
\* stored or emitted, and the text sent to the NL-to-SQL service is the raw input.
C16_EmptyCatalogPassThrough ==
    [][(UserTurn /\ EmptySchema) =>
          /\ data_sources = <<>>
          /\ determine_routing_strategy(
                 analyze_question_for_sources(last'.prompt, data_sources),
                 DefaultThreshold).strategy = "normal"
          /\ last'.outcome # "clarify"
          /\ pending_clarification' = None
          /\ \A i \in DOMAIN messages' : messages'[i].role # "assistant"
          /\ last'.api # None
          /\ last'.enhanced_prompt = last'.prompt
          /\ last'.sent[Len(last'.sent)] = UserMessage(last'.prompt)]_vars

\* with an unparseable schema, the question that names a table of each scenario
\* source was asked after other turns and went to the service as typed
C16_Witness ==
    /\ semantic_model = YamlUnparseable
    /\ last # None
    /\ last.prompt = STR_AccountAndInvoice
    /\ last.outcome = "answered"
    /\ Len(messages) >= 4


-----------------------------------------------------------------------------
(* The catalog builder on its own: load_semantic_model_structure applied   *)
(* to schemas with well-formed and malformed entries                       *)

MaxBuildModels == 2   \* most logical models in a schema

\* a column, measure or dimension as parsed from the YAML
Item(nm, desc, syns) == [name |-> nm, description |-> desc, synonyms |-> syns]

TableOf(nm, desc, cols) == [name |-> nm, description |-> desc, columns |-> cols]

ModelOf(nm, desc, tabs, meas, dims) ==
    [name |-> nm, description |-> desc, tables |-> tabs, measures |-> meas,
     dimensions |-> dims]

\* "Sa", described as "All of Us": a table " Ab" described as "an Old id_1" with
\* a column "q" whose synonyms are "No" and a blank
BuildSales ==
    ModelOf(<<"S", "a">>, <<"A", "l", "l", " ", "o", "f", " ", "U", "s">>,
        <<TableOf(<<" ", "A", "b">>,
                  <<"a", "n", " ", "O", "l", "d", " ", "i", "d", "_", "1">>,
                  <<Item(<<"q">>, <<>>, << <<"N", "o">>, <<" ">> >>)>>)>>,
        <<>>, <<>>)

\* a blank name; its description and its table are null
BuildBlank ==
    ModelOf(<<" ">>, PyNone, <<TableOf(PyNone, PyNone, <<>>)>>, <<>>, <<>>)

\* "E": a name and nothing else
BuildEmpty == ModelOf(<<"E">>, <<>>, <<>>, <<>>, <<>>)

\* "D", described as "big", with no table, measure or dimension
BuildDescOnly == ModelOf(<<"D">>, <<"b", "i", "g">>, <<>>, <<>>, <<>>)

\* "U": a table without a name described as "lost", with a column "Cc" described
\* as "the key" and a column with a blank name, described as "gone", whose
\* synonym is "Syn"
BuildUnnamed ==
    ModelOf(<<"U">>, <<>>,
        <<TableOf(<<>>, <<"l", "o", "s", "t">>,
                  <<Item(<<"C", "c">>, <<"t", "h", "e", " ", "k", "e", "y">>, <<>>),
                    Item(<<" ">>, <<"g", "o", "n", "e">>, << <<"S", "y", "n">> >>)>>)>>,
        <<>>, <<>>)

\* "M": a measure "Net Amt" and a dimension "Day" described as "per Day"
BuildMeasures ==
    ModelOf(<<"M">>, <<>>, <<>>,
        <<Item(<<"N", "e", "t", " ", "A", "m", "t">>, <<>>, <<>>)>>,
        <<Item(<<"D", "a", "y">>, <<"p", "e", "r", " ", "D", "a", "y">>, <<>>)>>)

\* name: null
BuildNullName ==
    ModelOf(PyNone, <<>>, <<TableOf(<<"t", "t">>, <<>>, <<>>)>>, <<>>, <<>>)

\* "N" with description: null
BuildNullDesc ==
    ModelOf(<<"N">>, PyNone, <<TableOf(<<"t", "t">>, <<>>, <<>>)>>, <<>>, <<>>)

\* "I" with a column whose name is an integer
BuildIntColumn ==
    ModelOf(<<"I">>, <<>>,
        <<TableOf(<<"t", "t">>, <<>>, <<Item(PyInt, <<>>, <<>>)>>)>>, <<>>, <<>>)

BuildModels ==
    {BuildSales, BuildBlank, BuildEmpty, BuildDescOnly, BuildUnnamed, BuildMeasures,
     BuildNullName, BuildNullDesc, BuildIntColumn}

\* the file: missing, unparseable, or up to MaxBuildModels different models
BuildSchemas ==
    {None, YamlUnparseable} \cup
    {[logical_models |-> ms] :
        ms \in {t \in UNION {[1..n -> BuildModels] : n \in 0..MaxBuildModels} :
                   IsInjective(t)}}

InitBuild ==
    /\ IdleSession
    /\ semantic_model \in BuildSchemas
    /\ data_sources = <<>>
    /\ source_arg = <<>>
    /\ response_warnings = <<>>
    /\ enhanced = <<>>
    /\ question = <<>>
    /\ threshold = DefaultThreshold
    /\ source_matches = <<>>
    /\ route = None
    /\ pc = "load"

\* main, line 320: the catalog is loaded once per session
Load ==
    /\ pc = "load"
    /\ data_sources' = load_semantic_model_structure(semantic_model)
    /\ pc' = "loaded"
    /\ UNCHANGED <<messages, pending_clarification, warnings, fire_API_error_notify,
                   last, question, threshold, source_matches, route, semantic_model,
                   source_arg, enhanced, response_warnings>>

NextBuild == Load

SpecBuild == InitBuild /\ [][NextBuild]_vars

-----------------------------------------------------------------------------
(* Properties of the catalog builder                                       *)

\* the models of the schema that was loaded
Models ==
    IF semantic_model = None \/ semantic_model = YamlUnparseable
    THEN <<>>
    ELSE semantic_model.logical_models

\* the columns of all tables of a model
ColumnsOf(m) == UNION {Range(t.columns) : t \in Range(m.tables)}

\* the tables, columns, measures and dimensions of a model
ItemsOf(m) ==
    Range(m.tables) \cup ColumnsOf(m) \cup Range(m.measures) \cup Range(m.dimensions)

\* every name, description and synonym of the model is a string
WellTyped(m) ==
    /\ is_str(m.name)
    /\ is_str(m.description)
    /\ \A it \in ItemsOf(m) : is_str(it.name) /\ is_str(it.description)
    /\ \A it \in ColumnsOf(m) \cup Range(m.measures) :
           \A sy \in Range(it.synonyms) : is_str(sy)

NotBlank(v) == str_strip(v) # <<>>

\* a well-formed model: strings only, a name, and a named table or column
WellFormed(m) ==
    /\ WellTyped(m)
    /\ NotBlank(m.name)
    /\ \E it \in Range(m.tables) \cup ColumnsOf(m) : NotBlank(it.name)

CatalogKeys == {data_sources[i].key : i \in DOMAIN data_sources}

KeyOf(m) == str_lower(str_strip(m.name))

\* C17 as stated: catalog construction skips malformed entries and never aborts:
\* every well-formed model of the schema is in the catalog, whatever malformed
\* entries stand beside it.
C17_MalformedSkipped ==
    pc = "loaded" =>
        \A i \in DOMAIN Models : WellFormed(Models[i]) => KeyOf(Models[i]) \in CatalogKeys

\* C18 as stated: a model is in the catalog under its lowercased name exactly
\* when its name is not blank and its keyword set is not empty; every entry has
\* a name and keywords; a model with a name, no table, column, measure or
\* dimension and an empty description is absent.
C18_RetentionRule ==
    pc = "loaded" =>
        /\ \A i \in DOMAIN Models :
               WellTyped(Models[i]) =>
                   ((NotBlank(Models[i].name) /\ KeyOf(Models[i]) \in CatalogKeys)
                       <=> (/\ NotBlank(Models[i].name)
                            /\ build_source_info(Models[i]).keywords # {}))
        /\ \A j \in DOMAIN data_sources :
               data_sources[j].name # <<>> /\ data_sources[j].keywords # {}
        /\ \A i \in DOMAIN Models :
               (/\ WellTyped(Models[i])
                /\ NotBlank(Models[i].name)
                /\ ItemsOf(Models[i]) = {}
                /\ Models[i].description = <<>>) => KeyOf(Models[i]) \notin CatalogKeys

IsToken(k) == k # <<>> /\ \A i \in DOMAIN k : IsWordChar(k[i])

\* C19 as stated: every keyword of every catalog entry is a lowercase token of
\* at least 3 characters.
C19_KeywordsAreLongTokens ==
    pc = "loaded" =>
        \A j \in DOMAIN data_sources : \A k \in data_sources[j].keywords :
            k = str_lower(k) /\ IsToken(k) /\ Len(k) >= 3

\* the lowercased names and the synonyms recorded in a catalog entry
EntryNames(e) ==
    {str_lower(n) : n \in Range(e.tables) \cup Range(e.columns)
                          \cup Range(e.measures) \cup Range(e.dimensions)}
        \cup e.synonyms

\* C19 amended: every keyword is lowercase, trimmed and not empty, and a keyword
\* that is shorter than 3 characters or is not a single word token is the
\* lowercased name of a table, column, measure or dimension of the entry, or one
\* of its synonyms.
C19_ShortKeywordsAreNames ==
    pc = "loaded" =>
        \A j \in DOMAIN data_sources : \A k \in data_sources[j].keywords :
            /\ k = str_lower(k)
            /\ k = str_strip(k)
            /\ k # <<>>
            /\ (Len(k) < 3 \/ ~IsToken(k)) => k \in EntryNames(data_sources[j])

\* a catalog was built whose entry has a keyword of one character, a keyword of
\* two words and keywords taken from a description
C19_Witness ==
    /\ pc = "loaded"
    /\ \E j \in DOMAIN data_sources :
           /\ \E k \in data_sources[j].keywords : Len(k) < 3 \/ ~IsToken(k)
           /\ \E k \in data_sources[j].keywords : k \notin EntryNames(data_sources[j])

\* the entry the catalog keeps for a model, if any
Retained(m) ==
    WellTyped(m) /\ NotBlank(m.name) /\ KeyOf(m) \in CatalogKeys

EntryOf(m) == data_sources[CHOOSE j \in DOMAIN data_sources : data_sources[j].key = KeyOf(m)]

\* the word tokens of a description that are longer than 2, lowercased
LongTokens(desc) ==
    {str_lower(w) : w \in {v \in Range(re_findall_words(desc)) : Len(v) > 2}}

\* C20 as stated: for every description of a retained model, its own and those
\* of its tables, columns, measures and dimensions, every word token longer than
\* 2 is, lowercased, in the model's keyword set; and so is every table, column,
\* measure and dimension name, lowercased.
C20_AllDescriptionsAndNames ==
    pc = "loaded" =>
        \A i \in DOMAIN Models :
            Retained(Models[i]) =>
                /\ LongTokens(Models[i].description) \subseteq EntryOf(Models[i]).keywords
                /\ \A it \in ItemsOf(Models[i]) :
                       /\ LongTokens(it.description) \subseteq EntryOf(Models[i]).keywords
                       /\ str_lower(it.name) \in EntryOf(Models[i]).keywords

\* C20 amended: for every table, column, measure and dimension of a retained
\* model whose name is not blank, the trimmed name lowercased is in the model's
\* keyword set, and so is, lowercased, every word token longer than 2 of its
\* description.
C20_NamedItemsContribute ==
    pc = "loaded" =>
        \A i \in DOMAIN Models :
            Retained(Models[i]) =>
                \A it \in ItemsOf(Models[i]) :
                    NotBlank(it.name) =>
                        /\ str_lower(str_strip(it.name)) \in EntryOf(Models[i]).keywords
                        /\ LongTokens(it.description) \subseteq EntryOf(Models[i]).keywords

\* a model was retained that has a description of its own, a named item with a
\* description and a name that needs trimming
C20_Witness ==
    /\ pc = "loaded"
    /\ \E i \in DOMAIN Models :
           /\ Retained(Models[i])
           /\ LongTokens(Models[i].description) # {}
           /\ \E it \in ItemsOf(Models[i]) :
                  /\ NotBlank(it.name)
                  /\ str_strip(it.name) # it.name
                  /\ LongTokens(it.description) # {}


-----------------------------------------------------------------------------
(* The warning filter on its own: filter_warnings applied to the warnings  *)
(* of a response                                                           *)

MaxWarnings == 3   \* most warnings in one response

\* "You May Want To Rename it"
STR_WarnRename ==
    <<"Y","o","u"," ","M","a","y"," ","W","a","n","t"," ","T","o"," ","R",
    "e","n","a","m","e"," ","i","t">>

\* "use x TO AVOID AMBIGUITY"
STR_WarnAmbiguity ==
    <<"u","s","e"," ","x"," ","T","O"," ","A","V","O","I","D"," ","A","M",
    "B","I","G","U","I","T","Y">>

\* "Found in columns a, b"
STR_WarnFound ==
    <<"F","o","u","n","d"," ","i","n"," ","c","o","l","u","m","n","s"," ",
    "a",","," ","b">>

\* "synonyms are duplicated"
STR_WarnDuplicated ==
    <<"s","y","n","o","n","y","m","s"," ","a","r","e"," ","d","u","p","l",
    "i","c","a","t","e","d">>

\* "synony found in column"
STR_WarnNearMiss ==
    <<"s","y","n","o","n","y"," ","f","o","u","n","d"," ","i","n"," ","c",
    "o","l","u","m","n">>

\* warnings with each pattern in some case, without any pattern, with words that
\* only resemble a pattern, and without a message
ResponseWarningSet ==
    {[message |-> STR_WarnSynonym], [message |-> STR_WarnTruncated],
     [message |-> STR_WarnRename], [message |-> STR_WarnAmbiguity],
     [message |-> STR_WarnFound], [message |-> STR_WarnDuplicated],
     [message |-> STR_WarnNearMiss], [code |-> "W1"]}

InitFilter ==
    /\ messages = <<>>
    /\ pending_clarification = None
    /\ warnings = <<>>
    /\ fire_API_error_notify = FALSE
    /\ last = None
    /\ data_sources = <<>>
    /\ semantic_model = None
    /\ source_arg = <<>>
    /\ enhanced = <<>>
    /\ question = <<>>
    /\ threshold = DefaultThreshold
    /\ source_matches = <<>>
    /\ route = None
    /\ response_warnings \in UNION {[1..n -> ResponseWarningSet] : n \in 0..MaxWarnings}
    /\ pc = "filter"

\* process_user_input, lines 531-532
Filter ==
    /\ pc = "filter"
    /\ warnings' = filter_warnings(response_warnings)
    /\ pc' = "filtered"
    /\ UNCHANGED <<data_sources, messages, pending_clarification,
                   fire_API_error_notify, last, question, threshold, source_matches,
                   route, semantic_model, source_arg, enhanced, response_warnings>>

NextFilter == Filter

SpecFilter == InitFilter /\ [][NextFilter]_vars

\* the message of a warning, lowercased; a warning without one has the empty
\* message
LoweredMessage(w) ==
    IF "message" \in DOMAIN w THEN str_lower(w.message) ELSE <<>>

\* the message contains one of the four patterns, compared case-insensitively
HasPattern(w) ==
    \E pat \in {STR_Synonym, STR_MayWantToRename, STR_ToAvoidAmbiguity,
                 STR_FoundInColumns} : str_in(pat, LoweredMessage(w))

\* the positions of the warnings of the response without any pattern
KeptPositions == {i \in DOMAIN response_warnings : ~HasPattern(response_warnings[i])}

\* the k-th of them, counted from the left
KeptPosition(k) ==
    CHOOSE i \in KeptPositions : Cardinality({j \in KeptPositions : j <= i}) = k

\* C21: filter_warnings returns, in their original order and unchanged, exactly
\* the warnings whose message, compared case-insensitively, contains none of
\* 'synonym', 'may want to rename', 'to avoid ambiguity', 'found in columns'.
C21_FilterKeepsOthers ==
    pc = "filtered" =>
        /\ Len(warnings) = Cardinality(KeptPositions)
        /\ \A k \in DOMAIN warnings : warnings[k] = response_warnings[KeptPosition(k)]

\* three warnings were filtered: one with a pattern in another case was removed
\* from between two that were kept, one of them without a message
C21_Witness ==
    /\ pc = "filtered"
    /\ Len(response_warnings) = 3
    /\ KeptPositions = {1, 3}
    /\ LoweredMessage(response_warnings[2]) # response_warnings[2].message
    /\ \E i \in KeptPositions : "message" \notin DOMAIN response_warnings[i]
    /\ Len(warnings) = 2

-----------------------------------------------------------------------------
(* The stored clarification and the reply to it                            *)

\* the display names of the sources in the catalog
CatalogNames == {data_sources[j].name : j \in DOMAIN data_sources}

\* the text of the last message sent to the NL-to-SQL service on turn t
SentText(t) == t.sent[Len(t.sent)].content[1].text

\* C22: whenever a clarification is pending its candidate list has at least 2
\* entries, pairwise distinct, each the display name of a source in the catalog;
\* and the text sent on a reply to a clarification begins with
\* "Focus on data from", the resolved source being one of the catalog.
C22_PendingCandidates ==
    /\ pending_clarification # None =>
           /\ Len(pending_clarification.available_sources) >= 2
           /\ IsInjective(pending_clarification.available_sources)
           /\ Range(pending_clarification.available_sources) \subseteq CatalogNames
    /\ (last # None /\ last.had_pending) =>
           /\ Len(last.available_sources) >= 2
           /\ last.selected_source \in CatalogNames
           /\ last.api # None
           /\ str_startswith(SentText(last), STR_FocusOn)

\* a reply that names none of the two candidates was resolved by the index-0
\* fallback and sent with the prefix
C22_Witness ==
    /\ last # None
    /\ last.had_pending
    /\ \A i \in DOMAIN last.available_sources :
           ~str_in(str_lower(last.available_sources[i]), str_lower(last.prompt))
    /\ last.selected_source = last.available_sources[1]
    /\ str_startswith(SentText(last), STR_FocusOn)
    /\ pending_clarification = None

====
